---- MODULE Spec2Model ----
(***************************************************************************)
(* Model of the compatibility scanner (pkg/client/compose/warnings.go), of  *)
(* the secret resolver (pkg/client/compose/secret.go), of the secret       *)
(* validator (pkg/api/secret.go) and of the image pull command             *)
(* (cmd/uncloud/image/pull.go) of uncloud.                                 *)
(*                                                                         *)
(* The first three are pure functions of their arguments.  Each gets a     *)
(* specification whose initial states draw the arguments from bounded sets *)
(* and whose actions run the function and store what it returns:           *)
(*   SpecScan      CheckProjectWarnings(project)                           *)
(*   SpecResolve   secretSpecsFromCompose(secrets, serviceSecrets, dir),   *)
(*                 then ValidateSecretsAndMounts on what it returned       *)
(*   SpecValidate  ValidateSecretsAndMounts(secrets, mounts)               *)
(* The pull receives messages from a channel, one step for each:           *)
(*   SpecPull      pull(ctx, uncli, img, opts), from PullImage on          *)
(*                                                                         *)
(* Go values are represented as follows.                                   *)
(*   string            a TLA+ string                                       *)
(*   slice, map        a sequence (a map whose keys alone matter: a set)   *)
(*   pointer           Nil (= <<>>) or Ptr(v) (= <<v>>)                    *)
(*   nil-able slice    Nil, or Ptr(seq) for a non-nil slice                *)
(*   error             "" for nil, the message otherwise                   *)
(* A Warning is [Service, Key]; its Message is a fixed text per Key and    *)
(* is left out.                                                            *)
(***************************************************************************)
EXTENDS Integers, Sequences, FiniteSets, TLC

VARIABLES
    pc,              \* "scan" / "resolve" / "validate" before the call,
                     \* "scanned" / "resolved" / "validated" after it;
                     \* "pull", "receive" and "returned" for the pull
    project,         \* argument of CheckProjectWarnings
    warnings,        \* its result
    secrets,         \* arguments of secretSpecsFromCompose ...
    serviceSecrets,
    workingDir,
    files,           \* the filesystem os.ReadFile reads
    secretSpecs,     \* ... and its three results
    secretMounts,
    err,
    fileReads,       \* the paths handed to os.ReadFile, in order
    validateErr,     \* the result of ValidateSecretsAndMounts
    pullImage,       \* what clusterClient.PullImage returns: the messages
                     \* its channel delivers, whether the channel is closed
                     \* after them, and the error
    received,        \* how many messages the loop of pull has received
    started,         \* the local variable of pull
    events,          \* the events handed to pw.Event, in order
    pullErr          \* the error pull returns

vars == <<pc, project, warnings, secrets, serviceSecrets, workingDir, files,
          secretSpecs, secretMounts, err, fileReads, validateErr,
          pullImage, received, started, events, pullErr>>

pullVars == <<pullImage, received, started, events, pullErr>>

Nil == <<>>
Ptr(v) == <<v>>

(***************************************************************************)
(* Bounds of the model.                                                    *)
(***************************************************************************)
\* how many fields of a service differ from their zero value
MaxSetFields == 2
\* how many secret references a service carries
MaxRefs == 2
\* how many secret specs and how many secret mounts the validator is given
MaxSpecs == 3
MaxMounts == 2
\* how many messages the pull channel delivers
MaxMessages == 3

(***************************************************************************)
(* Go's string order: byte-wise, a proper prefix first.                    *)
(***************************************************************************)
\* ASCII, in order.  The bytes 1..31 and 127 stand in their strings as they
\* are, but for the four that have a notation; the byte 96 can be written
\* only before an apostrophe, and the byte 0 not at all.
Control == "\t\n\f\r"
PrintableLow == " !\"#$%&'()*+,-./0123456789:;<=>?@ABCDEFGHIJKLMNOPQRSTUVWXYZ[\\]^_"
Backtick == SubSeq("`'", 1, 1)
PrintableHigh == "abcdefghijklmnopqrstuvwxyz{|}~"
Delete == ""
Digits == "0123456789"

RECURSIVE IndexIn(_, _, _)
IndexIn(c, s, i) ==
    IF i > Len(s) THEN 0
    ELSE IF SubSeq(s, i, i) = c THEN i
    ELSE IndexIn(c, s, i + 1)

\* the byte of the one-character string c: its ASCII code.  The characters
\* beyond ASCII, which Go compares by the bytes of their UTF-8 encoding, are
\* drawn by no specification: no code is defined for them.
Byte(c) ==
    LET high == IndexIn(c, PrintableHigh, 1)
        low == IndexIn(c, PrintableLow, 1)
        control == IndexIn(c, Control, 1)
    IN  CASE high > 0 -> 96 + high
          [] low > 0 -> 31 + low
          [] control > 0 -> control
          [] c = Backtick -> 96
          [] c = Delete -> 127

RECURSIVE StrLess(_, _)
StrLess(a, b) ==
    IF Len(b) = 0 THEN FALSE
    ELSE IF Len(a) = 0 THEN TRUE
    ELSE IF Head(a) = Head(b) THEN StrLess(Tail(a), Tail(b))
    ELSE Byte(Head(a)) < Byte(Head(b))

(***************************************************************************)
(* types.ServiceConfig, types.DeployConfig, types.UpdateConfig: the fields *)
(* the scanner reads, and a few it must never flag.  Each record below is  *)
(* the Go zero value.                                                      *)
(***************************************************************************)
ZeroUpdateConfig ==
    [Parallelism |-> Nil, Delay |-> 0, FailureAction |-> "", Monitor |-> 0,
     MaxFailureRatio |-> 0, Order |-> ""]

ZeroPlacement == [Constraints |-> Nil, Preferences |-> <<>>]

ZeroDeploy ==
    [Labels |-> {}, RollbackConfig |-> Nil, RestartPolicy |-> Nil,
     EndpointMode |-> "", Placement |-> ZeroPlacement, UpdateConfig |-> Nil,
     Replicas |-> Nil]

ZeroService ==
    [Build |-> Nil, ContainerName |-> "", DependsOn |-> {}, Networks |-> {},
     NetworkMode |-> "", Restart |-> "", Secrets |-> <<>>, Profiles |-> <<>>,
     Links |-> <<>>, ExternalLinks |-> <<>>, VolumesFrom |-> <<>>,
     Develop |-> Nil, Hostname |-> "", DNS |-> <<>>, DNSOpts |-> <<>>,
     DNSSearch |-> <<>>, ExtraHosts |-> {}, SecurityOpt |-> <<>>,
     Platform |-> "", WorkingDir |-> "", Tmpfs |-> <<>>, ReadOnly |-> FALSE,
     ShmSize |-> 0, CPUSet |-> "", MemSwapLimit |-> 0, Pid |-> "", Ipc |-> "",
     Uts |-> "", UserNSMode |-> "", CgroupParent |-> "", Cgroup |-> "",
     Isolation |-> "", Runtime |-> "", StopSignal |-> "",
     StopGracePeriod |-> Nil, MacAddress |-> "", Tty |-> FALSE,
     StdinOpen |-> FALSE, OomKillDisable |-> FALSE, OomScoreAdj |-> 0,
     PidsLimit |-> 0, StorageOpt |-> {}, DeviceCgroupRules |-> <<>>,
     CredentialSpec |-> Nil, GroupAdd |-> <<>>, BlkioConfig |-> Nil,
     CPUCount |-> 0, CPUPercent |-> 0, CPUPeriod |-> 0, CPUQuota |-> 0,
     CPURTPeriod |-> 0, CPURTRuntime |-> 0, CPUShares |-> 0,
     MemSwappiness |-> 0, DomainName |-> "", Attach |-> Nil, Labels |-> {},
     Annotations |-> {}, Extends |-> Nil, PostStart |-> <<>>,
     PreStop |-> <<>>, Provider |-> Nil, Models |-> {}, VolumeDriver |-> "",
     UseAPISocket |-> FALSE, Net |-> "", Deploy |-> Nil,
     \* supported fields: read by the deploy pipeline, never by the scanner
     Image |-> "", Environment |-> {}, Volumes |-> <<>>, Ports |-> <<>>,
     CapAdd |-> <<>>, CapDrop |-> <<>>, Sysctls |-> {}, Ulimits |-> {},
     Expose |-> <<>>]

\* the supported fields of a service and of its deploy block
SupportedServiceFields ==
    {"Image", "Environment", "Volumes", "Ports", "CapAdd", "CapDrop",
     "Sysctls", "Ulimits", "Expose"}

(***************************************************************************)
(* The scanner.                                                            *)
(***************************************************************************)
\* if cond { warnings = append(warnings, Warning{Service: name, Key: key}) }
Warn(cond, name, key) ==
    IF cond THEN <<[Service |-> name, Key |-> key]>> ELSE <<>>

\* the mutant: only the project's own name counts as the default network
hasUserDefinedNetworks_ProjectNameOnly(proj, service) ==
    IF Cardinality(service.Networks) = 0 THEN FALSE
    ELSE \E networkName \in service.Networks : networkName # proj.Name

hasUserDefinedNetworks(proj, service) ==
    LET defaultNetworkName == proj.Name
    IN  IF Cardinality(service.Networks) = 0 THEN FALSE
        ELSE \E networkName \in service.Networks :
                networkName # defaultNetworkName /\ networkName # "default"

\* the mutant: depends_on is flagged whatever links holds
dependsOnCond_IgnoringLinks(service) ==
    Cardinality(service.DependsOn) > 0

\* the condition guarding the "depends_on" warning
dependsOnCond(service) ==
    Cardinality(service.DependsOn) > 0 /\ Len(service.Links) = 0

\* the condition guarding the "networks" warning
networksCond(proj, service) ==
    Cardinality(service.Networks) > 0 /\ hasUserDefinedNetworks(proj, service)

\* the mutant: the mode "default" is flagged like any other
networkModeCond_AnyMode(service) ==
    service.NetworkMode # ""

\* the condition guarding the "network_mode" warning
networkModeCond(service) ==
    service.NetworkMode # "" /\ service.NetworkMode # "default"

\* the mutant: an attach that is not given counts as false
attachCond_NilIsFalse(service) ==
    service.Attach = Nil \/ ~service.Attach[1]

\* the condition guarding the "attach" warning: *service.Attach is false
attachCond(service) ==
    service.Attach # Nil /\ ~service.Attach[1]

\* deploy.UpdateConfig.Parallelism != nil
parallelismCond_NonZero(uc) == uc.Parallelism # Nil /\ uc.Parallelism[1] # 0

parallelismCond(uc) == uc.Parallelism # Nil

checkDeployWarnings(serviceName, deploy) ==
       Warn(Cardinality(deploy.Labels) > 0, serviceName, "deploy.labels")
    \o Warn(deploy.RollbackConfig # Nil, serviceName, "deploy.rollback_config")
    \o Warn(deploy.RestartPolicy # Nil, serviceName, "deploy.restart_policy")
    \o Warn(deploy.EndpointMode # "", serviceName, "deploy.endpoint_mode")
    \o Warn(deploy.Placement.Constraints # Nil
              \/ Len(deploy.Placement.Preferences) > 0,
            serviceName, "deploy.placement")
    \o (IF deploy.UpdateConfig # Nil
        THEN LET uc == deploy.UpdateConfig[1]
             IN    Warn(parallelismCond(uc), serviceName,
                        "deploy.update_config.parallelism")
                \o Warn(uc.Delay > 0, serviceName,
                        "deploy.update_config.delay")
                \o Warn(uc.FailureAction # "", serviceName,
                        "deploy.update_config.failure_action")
                \o Warn(uc.Monitor > 0, serviceName,
                        "deploy.update_config.monitor")
                \o Warn(uc.MaxFailureRatio > 0, serviceName,
                        "deploy.update_config.max_failure_ratio")
        ELSE <<>>)

\* the chain of appends of checkServiceWarnings, before the deploy block
serviceLevelWarnings(proj, name, service) ==
       Warn(service.Build # Nil, name, "build")
    \o Warn(service.ContainerName # "", name, "container_name")
    \o Warn(dependsOnCond(service), name, "depends_on")
    \o Warn(networksCond(proj, service), name, "networks")
    \o Warn(networkModeCond(service), name, "network_mode")
    \o Warn(service.Restart # "", name, "restart")
    \o Warn(Len(service.Secrets) > 0, name, "secrets")
    \o Warn(Len(service.Profiles) > 0, name, "profiles")
    \o Warn(Len(service.Links) > 0, name, "links")
    \o Warn(Len(service.ExternalLinks) > 0, name, "external_links")
    \o Warn(Len(service.VolumesFrom) > 0, name, "volumes_from")
    \o Warn(service.Develop # Nil, name, "develop")
    \o Warn(service.Hostname # "", name, "hostname")
    \o Warn(Len(service.DNS) > 0, name, "dns")
    \o Warn(Len(service.DNSOpts) > 0, name, "dns_opt")
    \o Warn(Len(service.DNSSearch) > 0, name, "dns_search")
    \o Warn(Cardinality(service.ExtraHosts) > 0, name, "extra_hosts")
    \o Warn(Len(service.SecurityOpt) > 0, name, "security_opt")
    \o Warn(service.Platform # "", name, "platform")
    \o Warn(service.WorkingDir # "", name, "working_dir")
    \o Warn(Len(service.Tmpfs) > 0, name, "tmpfs")
    \o Warn(service.ReadOnly, name, "read_only")
    \o Warn(service.ShmSize > 0, name, "shm_size")
    \o Warn(service.CPUSet # "", name, "cpuset")
    \o Warn(service.MemSwapLimit > 0, name, "memswap_limit")
    \o Warn(service.Pid # "", name, "pid")
    \o Warn(service.Ipc # "", name, "ipc")
    \o Warn(service.Uts # "", name, "uts")
    \o Warn(service.UserNSMode # "", name, "userns_mode")
    \o Warn(service.CgroupParent # "", name, "cgroup_parent")
    \o Warn(service.Cgroup # "", name, "cgroup")
    \o Warn(service.Isolation # "", name, "isolation")
    \o Warn(service.Runtime # "", name, "runtime")
    \o Warn(service.StopSignal # "", name, "stop_signal")
    \o Warn(service.StopGracePeriod # Nil, name, "stop_grace_period")
    \o Warn(service.MacAddress # "", name, "mac_address")
    \o Warn(service.Tty, name, "tty")
    \o Warn(service.StdinOpen, name, "stdin_open")
    \o Warn(service.OomKillDisable, name, "oom_kill_disable")
    \o Warn(service.OomScoreAdj # 0, name, "oom_score_adj")
    \o Warn(service.PidsLimit # 0, name, "pids_limit")
    \o Warn(Cardinality(service.StorageOpt) > 0, name, "storage_opt")
    \o Warn(Len(service.DeviceCgroupRules) > 0, name, "device_cgroup_rules")
    \o Warn(service.CredentialSpec # Nil, name, "credential_spec")
    \o Warn(Len(service.GroupAdd) > 0, name, "group_add")
    \o Warn(service.BlkioConfig # Nil, name, "blkio_config")
    \o Warn(service.CPUCount > 0, name, "cpu_count")
    \o Warn(service.CPUPercent > 0, name, "cpu_percent")
    \o Warn(service.CPUPeriod > 0, name, "cpu_period")
    \o Warn(service.CPUQuota > 0, name, "cpu_quota")
    \o Warn(service.CPURTPeriod > 0, name, "cpu_rt_period")
    \o Warn(service.CPURTRuntime > 0, name, "cpu_rt_runtime")
    \o Warn(service.CPUShares # 0, name, "cpu_shares")
    \o Warn(service.MemSwappiness > 0, name, "mem_swappiness")
    \o Warn(service.DomainName # "", name, "domainname")
    \o Warn(attachCond(service), name, "attach")
    \o Warn(Cardinality(service.Labels) > 0, name, "labels")
    \o Warn(Cardinality(service.Annotations) > 0, name, "annotations")
    \o Warn(service.Extends # Nil, name, "extends")
    \o Warn(Len(service.PostStart) > 0, name, "post_start")
    \o Warn(Len(service.PreStop) > 0, name, "pre_stop")
    \o Warn(service.Provider # Nil, name, "provider")
    \o Warn(Cardinality(service.Models) > 0, name, "models")
    \o Warn(service.VolumeDriver # "", name, "volume_driver")
    \o Warn(service.UseAPISocket, name, "use_api_socket")
    \o Warn(service.Net # "", name, "net")

\* the comparison handed to slices.SortFunc
cmpKey(a, b) ==
    IF StrLess(a.Key, b.Key) THEN 0 - 1
    ELSE IF StrLess(b.Key, a.Key) THEN 1
    ELSE 0

\* x put into the sorted sequence s, after the elements that do not follow it
RECURSIVE insertSorted(_, _)
insertSorted(x, s) ==
    IF s = <<>> THEN <<x>>
    ELSE IF cmpKey(x, Head(s)) < 0 THEN <<x>> \o s
    ELSE <<Head(s)>> \o insertSorted(x, Tail(s))

\* slices.SortFunc(ws, cmpKey).  The library's sort is not stable; two
\* warnings of one service with equal keys are equal records, so every
\* sorting algorithm returns the same sequence.
RECURSIVE SortFunc(_)
SortFunc(ws) ==
    IF ws = <<>> THEN <<>>
    ELSE insertSorted(ws[Len(ws)], SortFunc(SubSeq(ws, 1, Len(ws) - 1)))

\* the mutant: the service-level warnings are sorted, the deploy warnings
\* appended after the sort
checkServiceWarnings_SortBeforeDeploy(proj, name, service) ==
    SortFunc(serviceLevelWarnings(proj, name, service))
        \o (IF service.Deploy # Nil
            THEN checkDeployWarnings(name, service.Deploy[1]) ELSE <<>>)

\* the mutant: the deploy block is walked a second time
checkServiceWarnings_DeployTwice(proj, name, service) ==
    LET deployWarnings == IF service.Deploy # Nil
                          THEN checkDeployWarnings(name, service.Deploy[1])
                          ELSE <<>>
    IN  SortFunc(serviceLevelWarnings(proj, name, service)
                 \o deployWarnings \o deployWarnings)

checkServiceWarnings(proj, name, service) ==
    SortFunc(serviceLevelWarnings(proj, name, service)
             \o (IF service.Deploy # Nil
                 THEN checkDeployWarnings(name, service.Deploy[1])
                 ELSE <<>>))

\* the least string of a non-empty set, in Go's string order
LeastString(S) == CHOOSE x \in S : \A y \in S : ~StrLess(y, x)

RECURSIVE SortStrings(_)
SortStrings(S) ==
    IF S = {} THEN <<>>
    ELSE <<LeastString(S)>> \o SortStrings(S \ {LeastString(S)})

\* project.ServiceNames(): the keys of the Services map, sorted
ServiceNames(proj) == SortStrings(DOMAIN proj.Services)

RECURSIVE checkEach(_, _)
checkEach(proj, names) ==
    IF names = <<>> THEN <<>>
    ELSE checkServiceWarnings(proj, Head(names), proj.Services[Head(names)])
         \o checkEach(proj, Tail(names))

\* the mutant: the services are visited in the order the compose file
\* declares them in
CheckProjectWarnings_DeclaredOrder(proj) == checkEach(proj, proj.Declared)

CheckProjectWarnings(proj) == checkEach(proj, ServiceNames(proj))

(***************************************************************************)
(* The projects the scanner is run on.                                     *)
(*                                                                         *)
(* A setting gives one field of a service (scope "service"), of its deploy *)
(* block ("deploy"), of the block's placement ("placement") or of its      *)
(* update_config ("update") a value other than the zero value.  A setting  *)
(* below the service level makes the blocks above it non-nil; the settings *)
(* "Deploy" and "UpdateConfig" make a block non-nil and leave it zero.     *)
(*                                                                         *)
(* A project is [Name, Services, Declared].  Services is the map of        *)
(* types.Project, from names to services.  Declared is no field of         *)
(* types.Project: it is the order in which the compose file lists the      *)
(* services, which the map does not keep and the scanner cannot read.      *)
(***************************************************************************)
Setting(scope, field, value) ==
    [scope |-> scope, field |-> field, value |-> value]

ProjectName == "app"
NetworkNames == {ProjectName, "default", "frontend"}

PointerFields ==
    {"Build", "Develop", "StopGracePeriod", "CredentialSpec", "BlkioConfig",
     "Extends", "Provider"}
StringFields ==
    {"ContainerName", "Restart", "Hostname", "Platform", "WorkingDir",
     "CPUSet", "Pid", "Ipc", "Uts", "UserNSMode", "CgroupParent", "Cgroup",
     "Isolation", "Runtime", "StopSignal", "MacAddress", "DomainName",
     "VolumeDriver", "Net", "Image"}
ListFields ==
    {"Secrets", "Profiles", "Links", "ExternalLinks", "VolumesFrom", "DNS",
     "DNSOpts", "DNSSearch", "SecurityOpt", "Tmpfs", "DeviceCgroupRules",
     "GroupAdd", "PostStart", "PreStop", "Volumes", "Ports", "CapAdd",
     "CapDrop", "Expose"}
MapFields ==
    {"DependsOn", "ExtraHosts", "StorageOpt", "Labels", "Annotations",
     "Models", "Environment", "Sysctls", "Ulimits"}
BoolFields ==
    {"ReadOnly", "Tty", "StdinOpen", "OomKillDisable", "UseAPISocket"}
NumberFields ==
    {"ShmSize", "MemSwapLimit", "OomScoreAdj", "PidsLimit", "CPUCount",
     "CPUPercent", "CPUPeriod", "CPUQuota", "CPURTPeriod", "CPURTRuntime",
     "CPUShares", "MemSwappiness"}
\* numbers a compose file gives a negative value: memswap_limit: -1,
\* pids_limit: -1, oom_score_adj: -500
SignedFields == {"MemSwapLimit", "OomScoreAdj", "PidsLimit"}

Settings ==
         {Setting("service", f, Ptr("set")) : f \in PointerFields}
    \cup {Setting("service", f, "x") : f \in StringFields}
    \cup {Setting("service", f, <<"x">>) : f \in ListFields}
    \cup {Setting("service", f, {"x"}) : f \in MapFields}
    \cup {Setting("service", f, TRUE) : f \in BoolFields}
    \cup {Setting("service", f, 1) : f \in NumberFields}
    \cup {Setting("service", f, 0 - 1) : f \in SignedFields}
    \cup {Setting("service", "NetworkMode", m) : m \in {"default", "host"}}
    \cup {Setting("service", "Networks", n) : n \in (SUBSET NetworkNames) \ {{}}}
    \cup {Setting("service", "Attach", Ptr(b)) : b \in BOOLEAN}
    \cup {Setting("deploy", "Deploy", Ptr(ZeroDeploy)),
          Setting("deploy", "Labels", {"x"}),
          Setting("deploy", "RollbackConfig", Ptr("set")),
          Setting("deploy", "RestartPolicy", Ptr("set")),
          Setting("deploy", "EndpointMode", "vip"),
          Setting("deploy", "Replicas", Ptr(3)),
          Setting("deploy", "UpdateConfig", Ptr(ZeroUpdateConfig)),
          Setting("placement", "Constraints", Ptr(<<>>)),
          Setting("placement", "Constraints", Ptr(<<"c">>)),
          Setting("placement", "Preferences", <<"p">>),
          Setting("update", "Parallelism", Ptr(0)),
          Setting("update", "Parallelism", Ptr(2)),
          Setting("update", "Delay", 1),
          Setting("update", "FailureAction", "pause"),
          Setting("update", "Monitor", 1),
          Setting("update", "MaxFailureRatio", 1),
          Setting("update", "Order", "start-first")}
    \cup {Setting("update", f, 0 - 1) :
            f \in {"Delay", "Monitor", "MaxFailureRatio"}}

\* the settings in a fixed order, to choose sets of them without repetition
RECURSIVE SetToSeq(_)
SetToSeq(S) ==
    IF S = {} THEN <<>>
    ELSE LET x == CHOOSE y \in S : TRUE IN <<x>> \o SetToSeq(S \ {x})

SettingSeq == SetToSeq(Settings)

\* the choices of at most k settings: position i holds the index of a setting
\* or 0, indices decrease strictly until the first 0
Choices(k) ==
    {c \in [1..k -> 0..Len(SettingSeq)] :
        \A i \in 1..(k - 1) : c[i + 1] = 0 \/ c[i + 1] < c[i]}

\* the settings of a choice; a choice with two settings of one field is left out
Chosen(c) == {SettingSeq[c[i]] : i \in {j \in DOMAIN c : c[j] > 0}}
OneValuePerField(S) ==
    \A x, y \in S : (x.scope = y.scope /\ x.field = y.field) => x = y

\* the zero record with the settings of one scope applied
Apply(zero, scope, S) ==
    [f \in DOMAIN zero |->
        IF \E x \in S : x.scope = scope /\ x.field = f
        THEN (CHOOSE x \in S : x.scope = scope /\ x.field = f).value
        ELSE zero[f]]

MkUpdateConfig(S) == Apply(ZeroUpdateConfig, "update", S)

MkDeploy(S) ==
    LET d == Apply(ZeroDeploy, "deploy",
                   {x \in S : x.field \notin {"Deploy", "UpdateConfig"}})
        hasUpdate == \E x \in S : x.scope = "update" \/ x.field = "UpdateConfig"
    IN  [d EXCEPT !.Placement = Apply(ZeroPlacement, "placement", S),
                  !.UpdateConfig = IF hasUpdate THEN Ptr(MkUpdateConfig(S))
                                   ELSE Nil]

MkService(S) ==
    LET hasDeploy == \E x \in S : x.scope # "service"
    IN  [Apply(ZeroService, "service", S)
            EXCEPT !.Deploy = IF hasDeploy THEN Ptr(MkDeploy(S)) ELSE Nil]

\* projects of one service, with at most MaxSetFields settings
SingleServiceProject(c) ==
    [Name |-> ProjectName, Services |-> [n \in {"web"} |-> MkService(Chosen(c))],
     Declared |-> <<"web">>]

\* projects of several services, each with one of a few configurations
ServiceUniverse == {"Web", "db", "web", "web2"}
FewSettingSets ==
    {{},
     {Setting("service", "Restart", "x")},
     {Setting("service", "Image", "x"), Setting("deploy", "Replicas", Ptr(3))},
     {Setting("service", "Secrets", <<"x">>),
      Setting("service", "Profiles", <<"x">>)},
     {Setting("service", "Networks", {"frontend"}),
      Setting("service", "NetworkMode", "host"),
      Setting("deploy", "Labels", {"x"})}}

\* three of the orders a compose file can declare the services of S in: by
\* name, by name backwards, and by name with the first service put last
DeclaredOrders(S) ==
    LET byName == SortStrings(S)
        n == Len(byName)
    IN  {byName, [i \in 1..n |-> byName[n + 1 - i]],
         Tail(byName) \o <<Head(byName)>>}

\* the services names with the settings pick, in each declared order
ProjectsOf(names, pick) ==
    LET services == [n \in names |-> MkService(pick[n])]
    IN  {[Name |-> name, Services |-> services, Declared |-> declared] :
            name \in {ProjectName, "frontend"},
            declared \in DeclaredOrders(names)}

SeveralServiceProjects ==
    UNION {UNION {ProjectsOf(names, pick) :
                     pick \in [names -> FewSettingSets]} :
              names \in {N \in SUBSET ServiceUniverse : Cardinality(N) >= 3}}

(***************************************************************************)
(* SpecScan: one call of CheckProjectWarnings.                             *)
(***************************************************************************)
PullIdle ==
    /\ pullImage = [ch |-> <<>>, closed |-> FALSE, err |-> ""]
    /\ received = 0
    /\ started = FALSE
    /\ events = <<>>
    /\ pullErr = ""

ResolverIdle ==
    /\ secrets = <<>>
    /\ serviceSecrets = <<>>
    /\ workingDir = ""
    /\ files = <<>>
    /\ secretSpecs = <<>>
    /\ secretMounts = <<>>
    /\ err = ""
    /\ fileReads = <<>>
    /\ validateErr = ""

InitScan ==
    /\ pc = "scan"
    /\ \/ \E c \in Choices(MaxSetFields) :
            /\ OneValuePerField(Chosen(c))
            /\ project = SingleServiceProject(c)
       \/ project \in SeveralServiceProjects
    /\ warnings = <<>>
    /\ ResolverIdle
    /\ PullIdle

Scan ==
    /\ pc = "scan"
    /\ warnings' = CheckProjectWarnings(project)
    /\ pc' = "scanned"
    /\ UNCHANGED <<project, secrets, serviceSecrets, workingDir, files,
                   secretSpecs, secretMounts, err, fileReads, validateErr,
                   pullVars>>

NextScan == Scan

SpecScan == InitScan /\ [][NextScan]_vars

(***************************************************************************)
(* Properties of the scanner.                                              *)
(***************************************************************************)
\* the keys of the warnings of service name in the output
KeysOf(name) ==
    {warnings[i].Key : i \in {j \in DOMAIN warnings : warnings[j].Service = name}}

\* the place in the sequence names of each of the project's services and of
\* each service the output names, 0 for one that names does not hold
Places(names) ==
    [n \in (DOMAIN project.Services)
            \cup {warnings[i].Service : i \in DOMAIN warnings} |->
        IF \E k \in DOMAIN names : names[k] = n
        THEN CHOOSE k \in DOMAIN names : names[k] = n
        ELSE 0]

IsDeployKey(key) == Len(key) > 7 /\ SubSeq(key, 1, 7) = "deploy."

\* C1: the warnings of one service are in non-decreasing order of Key, in
\* Go's byte-wise string order, the deploy.* keys sorted among the others.
C1_SortedWithinService ==
    pc = "scanned" =>
        \A i, j \in DOMAIN warnings :
            (i < j /\ warnings[i].Service = warnings[j].Service)
                => ~StrLess(warnings[j].Key, warnings[i].Key)

\* a deploy.* warning, appended last by the code, stands before a
\* service-level warning of the same service
C1_Witness ==
    /\ pc = "scanned"
    /\ \E i, j \in DOMAIN warnings :
        /\ i < j
        /\ warnings[i].Service = warnings[j].Service
        /\ IsDeployKey(warnings[i].Key)
        /\ ~IsDeployKey(warnings[j].Key)

\* C2 as stated: the output follows the declared order: every warning
\* belongs to a service of the project, and a warning of a service never
\* stands before a warning of a service declared earlier.
C2_AsStated ==
    pc = "scanned" =>
        LET place == Places(project.Declared)
        IN  /\ \A i \in DOMAIN warnings : place[warnings[i].Service] > 0
            /\ \A i, j \in DOMAIN warnings :
                i < j => place[warnings[i].Service] <= place[warnings[j].Service]

\* C2: the output follows the byte-wise order of the service names, which
\* is the order of project.ServiceNames(), whatever order the services are
\* declared in: every warning belongs to a service of the project, and of
\* two warnings the later one belongs to the same service or to one with a
\* greater name; so the warnings of one service are contiguous, and a
\* service without warnings adds nothing.
C2_ServiceOrder ==
    pc = "scanned" =>
        /\ \A i \in DOMAIN warnings :
            warnings[i].Service \in DOMAIN project.Services
        /\ \A i, j \in DOMAIN warnings :
            i < j => \/ warnings[i].Service = warnings[j].Service
                     \/ StrLess(warnings[i].Service, warnings[j].Service)
        /\ LET place == Places(ServiceNames(project))
           IN  \A i, j \in DOMAIN warnings :
                i < j => place[warnings[i].Service] <= place[warnings[j].Service]

\* two services with several warnings each, the one with the greater name
\* declared first, and between them in name order a service with none: the
\* warnings of the service with the lesser name come first
C2_Witness ==
    /\ pc = "scanned"
    /\ \E a, b, c \in DOMAIN project.Services :
        /\ StrLess(a, b) /\ StrLess(b, c)
        /\ Places(project.Declared)[c] < Places(project.Declared)[a]
        /\ Cardinality(KeysOf(a)) > 1
        /\ KeysOf(b) = {}
        /\ Cardinality(KeysOf(c)) > 1
        /\ warnings[1].Service = a
        /\ warnings[Len(warnings)].Service = c

\* no field of the catalogue differs from its zero value: the deploy block,
\* if any, has at most replicas and update_config.order set
OnlySupportedFieldsSet(service) ==
    /\ \A f \in (DOMAIN ZeroService) \ (SupportedServiceFields \cup {"Deploy"}) :
            service[f] = ZeroService[f]
    /\ \/ service.Deploy = Nil
       \/ LET d == service.Deploy[1]
          IN  /\ [d EXCEPT !.Replicas = Nil, !.UpdateConfig = Nil] = ZeroDeploy
              /\ \/ d.UpdateConfig = Nil
                 \/ [d.UpdateConfig[1] EXCEPT !.Order = ""] = ZeroUpdateConfig

\* C3: when every service has only supported fields set, the scan returns
\* no warning.
C3_NoUnsupportedNoWarnings ==
    (/\ pc = "scanned"
     /\ \A n \in DOMAIN project.Services :
            OnlySupportedFieldsSet(project.Services[n]))
        => warnings = <<>>

\* a service with an image and deploy.replicas, and an empty output
C3_Witness ==
    /\ pc = "scanned"
    /\ \A n \in DOMAIN project.Services :
            OnlySupportedFieldsSet(project.Services[n])
    /\ \E n \in DOMAIN project.Services :
        /\ project.Services[n].Image # ""
        /\ project.Services[n].Deploy # Nil
        /\ project.Services[n].Deploy[1].Replicas # Nil
    /\ warnings = <<>>

\* C4: a service with depends_on gets the depends_on warning when it has no
\* links, and the links warning without the depends_on warning when it has.
C4_DependsOnUnlessLinks ==
    pc = "scanned" =>
        \A n \in DOMAIN project.Services :
            LET service == project.Services[n]
            IN  service.DependsOn # {} =>
                    IF service.Links = <<>>
                    THEN "depends_on" \in KeysOf(n)
                    ELSE "links" \in KeysOf(n) /\ "depends_on" \notin KeysOf(n)

\* a service with depends_on and links, warned about links alone
C4_Witness ==
    /\ pc = "scanned"
    /\ \E n \in DOMAIN project.Services :
        /\ project.Services[n].DependsOn # {}
        /\ project.Services[n].Links # <<>>
        /\ KeysOf(n) = {"links"}

\* C5: a service gets the networks warning exactly when one of its networks
\* is neither the project's name nor "default".
C5_NetworksWarning ==
    pc = "scanned" =>
        \A n \in DOMAIN project.Services :
            "networks" \in KeysOf(n)
                <=> (project.Services[n].Networks \ {project.Name, "default"}) # {}

\* a service on a default and on a user-defined network, warned
C5_Witness ==
    /\ pc = "scanned"
    /\ \E n \in DOMAIN project.Services :
        /\ "default" \in project.Services[n].Networks
        /\ "frontend" \in project.Services[n].Networks
        /\ project.Name # "frontend"
        /\ "networks" \in KeysOf(n)

\* C6: a service gets the network_mode warning exactly when its
\* network_mode is neither empty nor "default", with or without a networks
\* warning.
C6_NetworkModeWarning ==
    pc = "scanned" =>
        \A n \in DOMAIN project.Services :
            "network_mode" \in KeysOf(n)
                <=> project.Services[n].NetworkMode \notin {"", "default"}

\* a service in mode "default" that has the networks warning and no
\* network_mode warning
C6_Witness ==
    /\ pc = "scanned"
    /\ \E n \in DOMAIN project.Services :
        /\ project.Services[n].NetworkMode = "default"
        /\ "networks" \in KeysOf(n)
        /\ "network_mode" \notin KeysOf(n)

(***************************************************************************)
(* The secret resolver.                                                    *)
(*                                                                         *)
(* types.SecretConfig is [Content, File, External], types.Secrets a        *)
(* function from names to them; types.ServiceSecretConfig is [Source,      *)
(* Target, UID, GID, Mode], Mode a pointer.  api.SecretSpec is [Name,      *)
(* Content], api.SecretMount [SecretName, ContainerPath, Uid, Gid, Mode].  *)
(* []byte content is the string of its bytes.                              *)
(***************************************************************************)
\* filepath.IsAbs, on Unix
IsAbs(path) == Len(path) > 0 /\ Head(path) = "/"

\* strings.Split(path, "/")
RECURSIVE SplitPath(_)
SplitPath(path) ==
    LET i == IndexIn("/", path, 1)
    IN  IF i = 0 THEN <<path>>
        ELSE <<SubSeq(path, 1, i - 1)>>
             \o SplitPath(SubSeq(path, i + 1, Len(path)))

\* the elements of a path that filepath.Clean keeps, in out
RECURSIVE cleanElements(_, _, _)
cleanElements(elems, rooted, out) ==
    IF elems = <<>> THEN out
    ELSE LET e == Head(elems)
             rest == Tail(elems)
         IN  IF e = "" \/ e = "." THEN cleanElements(rest, rooted, out)
             ELSE IF e = ".."
             THEN IF out # <<>> /\ out[Len(out)] # ".."
                  THEN cleanElements(rest, rooted, SubSeq(out, 1, Len(out) - 1))
                  ELSE IF rooted THEN cleanElements(rest, rooted, out)
                  ELSE cleanElements(rest, rooted, Append(out, e))
             ELSE cleanElements(rest, rooted, Append(out, e))

\* strings.Join(elems, "/")
RECURSIVE JoinElements(_)
JoinElements(elems) ==
    IF elems = <<>> THEN ""
    ELSE IF Len(elems) = 1 THEN elems[1]
    ELSE elems[1] \o "/" \o JoinElements(Tail(elems))

\* filepath.Clean, on Unix
Clean(path) ==
    LET rooted == IsAbs(path)
        kept == JoinElements(cleanElements(SplitPath(path), rooted, <<>>))
    IN  IF rooted THEN "/" \o kept
        ELSE IF kept = "" THEN "."
        ELSE kept

\* filepath.Join(dir, path), on Unix
Join(dir, path) ==
    IF dir # "" THEN Clean(dir \o "/" \o path)
    ELSE IF path # "" THEN Clean(path)
    ELSE ""

\* A filesystem is a function from the places of its regular files to
\* their bytes, a place being the names on the way from the root; there
\* are no symbolic links.  Getwd is the place of the directory of the
\* process, which a relative path handed to os.ReadFile starts from.
Getwd == <<"home", "deploy">>

\* the places of the directories: the root, Getwd, and whatever lies above
\* a file or Getwd
DirNodes(fs) ==
    {SubSeq(Getwd, 1, k) : k \in 0..Len(Getwd)}
        \cup UNION {{SubSeq(n, 1, k) : k \in 0..(Len(n) - 1)} :
                       n \in DOMAIN fs}

\* the kernel's walk along the elements of a path, from node: each element,
\* an empty one, "." and ".." included, is looked up in a directory, so
\* that a regular file on the way is ENOTDIR and a missing name ENOENT
RECURSIVE namei(_, _, _, _)
namei(fileNodes, dirNodes, elems, node) ==
    IF elems = <<>> THEN [node |-> node, errno |-> ""]
    ELSE LET e == Head(elems)
             rest == Tail(elems)
             next == Append(node, e)
         IN  IF node \notin dirNodes
             THEN [node |-> node, errno |-> "not a directory"]
             ELSE IF e = "" \/ e = "." THEN namei(fileNodes, dirNodes, rest, node)
             ELSE IF e = ".."
             THEN namei(fileNodes, dirNodes, rest,
                        IF node = <<>> THEN node
                        ELSE SubSeq(node, 1, Len(node) - 1))
             ELSE IF next \in fileNodes \/ next \in dirNodes
             THEN namei(fileNodes, dirNodes, rest, next)
             ELSE [node |-> node, errno |-> "no such file or directory"]

\* os.ReadFile: open fails on a path the walk cannot follow, and on the
\* empty path; a directory opens, and the read of it fails
ReadFile(fs, path) ==
    LET start == IF IsAbs(path) THEN <<>> ELSE Getwd
        dirNodes == DirNodes(fs)
        found == namei(DOMAIN fs, dirNodes, SplitPath(path), start)
    IN  IF path = ""
        THEN [data |-> "", err |-> "open : no such file or directory"]
        ELSE IF found.errno # ""
        THEN [data |-> "", err |-> "open " \o path \o ": " \o found.errno]
        ELSE IF found.node \in dirNodes
        THEN [data |-> "", err |-> "read " \o path \o ": is a directory"]
        ELSE [data |-> fs[found.node], err |-> ""]

\* the mutant: the file path is used as written
secretPath_AsWritten(file, dir) == file

\* the path of a secret file: joined to the working directory unless absolute
secretPath(file, dir) ==
    IF ~IsAbs(file) THEN Join(dir, file) ELSE file

\* the mutant: a definition is treated as external only when it carries
\* neither content nor file
externalCond_OnlyWhenBare(projectSecret) ==
    projectSecret.External /\ projectSecret.Content = ""
        /\ projectSecret.File = ""

\* the condition guarding the "external secrets are not supported" error
externalCond(projectSecret) == projectSecret.External

\* the mutant: the default path lacks the separator
mountTarget_NoSeparator(serviceSecret) ==
    IF serviceSecret.Target = "" THEN "/run/secrets" \o serviceSecret.Source
    ELSE serviceSecret.Target

\* the container path of a mount
mountTarget(serviceSecret) ==
    IF serviceSecret.Target = "" THEN "/run/secrets/" \o serviceSecret.Source
    ELSE serviceSecret.Target

\* os.FileMode(*serviceSecret.Mode): the conversion of int64 to uint32 keeps
\* every mode of 0 .. 2^32 - 1, and no other is drawn
toFileMode(mode) == mode

\* serviceSecret.Mode != nil
modeCond_NonZero(serviceSecret) ==
    serviceSecret.Mode # Nil /\ serviceSecret.Mode[1] # 0

modeCond(serviceSecret) == serviceSecret.Mode # Nil

secretMount(serviceSecret, spec) ==
    [SecretName |-> spec.Name,
     ContainerPath |-> mountTarget(serviceSecret),
     Uid |-> serviceSecret.UID,
     Gid |-> serviceSecret.GID,
     Mode |-> IF modeCond(serviceSecret)
              THEN Ptr(toFileMode(serviceSecret.Mode[1])) ELSE Nil]

\* the mutant: what was resolved before the failure is returned with the error
failed_WithPartialResult(specs, mounts, reads, e) ==
    [specs |-> specs, mounts |-> mounts, err |-> e, reads |-> reads]

\* return nil, nil, fmt.Errorf(...)
failed(specs, mounts, reads, e) ==
    [specs |-> <<>>, mounts |-> <<>>, err |-> e, reads |-> reads]

\* os.ReadFile(secretPath) is called: one more read, of this path
recordRead_OncePerPath(reads, path) ==
    IF \E n \in DOMAIN reads : reads[n] = path THEN reads
    ELSE Append(reads, path)

recordRead(reads, path) == Append(reads, path)

\* the loop of secretSpecsFromCompose over the references left, with the
\* specs, the mounts and the file reads made so far
RECURSIVE resolveEach(_, _, _, _, _, _, _)
resolveEach(secs, refs, dir, fs, specs, mounts, reads) ==
    IF refs = <<>>
    THEN [specs |-> specs, mounts |-> mounts, err |-> "", reads |-> reads]
    ELSE
      LET serviceSecret == Head(refs)
      IN  IF serviceSecret.Source \notin DOMAIN secs
          THEN failed(specs, mounts, reads,
                      "secret '" \o serviceSecret.Source
                          \o "' not found in project secrets")
          ELSE
            LET projectSecret == secs[serviceSecret.Source]
            IN  IF externalCond(projectSecret)
                THEN failed(specs, mounts, reads,
                            "external secrets are not supported: "
                                \o serviceSecret.Source)
                ELSE IF projectSecret.File # ""
                THEN
                  LET path == secretPath(projectSecret.File, dir)
                      read == ReadFile(fs, path)
                      spec == [Name |-> serviceSecret.Source,
                               Content |-> read.data]
                  IN  IF read.err # ""
                      THEN failed(specs, mounts, recordRead(reads, path),
                                  "read secret from file '"
                                      \o projectSecret.File \o "': " \o read.err)
                      ELSE resolveEach(secs, Tail(refs), dir, fs,
                                       Append(specs, spec),
                                       Append(mounts,
                                              secretMount(serviceSecret, spec)),
                                       recordRead(reads, path))
                ELSE
                  LET spec == [Name |-> serviceSecret.Source,
                               Content |-> projectSecret.Content]
                  IN  resolveEach(secs, Tail(refs), dir, fs,
                                  Append(specs, spec),
                                  Append(mounts,
                                         secretMount(serviceSecret, spec)),
                                  reads)

\* the mutant: a spec is kept only the first time its name comes up
RECURSIVE firstOfEachName(_, _)
firstOfEachName(specs, seen) ==
    IF specs = <<>> THEN <<>>
    ELSE IF Head(specs).Name \in seen
    THEN firstOfEachName(Tail(specs), seen)
    ELSE <<Head(specs)>>
             \o firstOfEachName(Tail(specs), seen \cup {Head(specs).Name})

secretSpecsFromCompose_Deduplicated(secs, refs, dir, fs) ==
    LET r == resolveEach(secs, refs, dir, fs, <<>>, <<>>, <<>>)
    IN  [r EXCEPT !.specs = firstOfEachName(r.specs, {})]

secretSpecsFromCompose(secs, refs, dir, fs) ==
    resolveEach(secs, refs, dir, fs, <<>>, <<>>, <<>>)

(***************************************************************************)
(* The arguments the resolver is run on.                                   *)
(***************************************************************************)
SecretConfig(content, file, external) ==
    [Content |-> content, File |-> file, External |-> external]

\* one definition of each kind: inline, file-backed with a relative path,
\* inline and file-backed with an absolute path, external, one whose file
\* is missing, one whose path runs through a regular file, and one whose
\* path is a directory
ProjectSecrets ==
    [name \in {"inline", "filed", "both", "vault", "gone", "knot", "folder"} |->
        CASE name = "inline" -> SecretConfig("s3cret", "", FALSE)
          [] name = "filed" -> SecretConfig("", "./secret.txt", FALSE)
          [] name = "both" -> SecretConfig("stale", "/etc/keys/../keys/api.pem", FALSE)
          [] name = "vault" -> SecretConfig("token", "./secret.txt", TRUE)
          [] name = "gone" -> SecretConfig("", "missing.txt", FALSE)
          [] name = "knot" -> SecretConfig("", "/etc/keys/api.pem/../api.pem", FALSE)
          [] name = "folder" -> SecretConfig("", "/etc/keys", FALSE)]

\* a secret.txt in the process's directory, another in /srv/app, and
\* /etc/keys/api.pem
FileSystem ==
    [node \in {Getwd \o <<"secret.txt">>, <<"srv", "app", "secret.txt">>,
               <<"etc", "keys", "api.pem">>} |->
        CASE node = Getwd \o <<"secret.txt">> -> "from the current directory"
          [] node = <<"srv", "app", "secret.txt">> -> "from /srv/app"
          [] node = <<"etc", "keys", "api.pem">> -> "pem"]

WorkingDirs == {".", "/srv/app"}

\* the references: any source, defined or not, with no target, an absolute
\* one or a relative one; without owner and mode, with both (0o400 = 256),
\* or with an owner that is not a plain number and a mode of 0; and a bare
\* reference to each of the two definitions whose path the kernel refuses
ServiceSecretConfigs ==
    {[Source |-> source, Target |-> target, UID |-> owner.UID,
      GID |-> owner.GID, Mode |-> owner.Mode] :
        source \in {"inline", "filed", "both", "vault", "gone", "nope"},
        target \in {"", "/etc/app/key", "conf/key"},
        owner \in {[UID |-> "", GID |-> "", Mode |-> Nil],
                   [UID |-> "1000", GID |-> "0", Mode |-> Ptr(256)],
                   [UID |-> "007", GID |-> "wheel", Mode |-> Ptr(0)]}}
    \cup {[Source |-> source, Target |-> "", UID |-> "", GID |-> "",
           Mode |-> Nil] : source \in {"knot", "folder"}}

\* the sequences of at most n elements of S
SeqsUpTo(S, n) == UNION {[1..k -> S] : k \in 0..n}

ScannerIdle ==
    /\ project = [Name |-> "", Services |-> <<>>, Declared |-> <<>>]
    /\ warnings = <<>>

(***************************************************************************)
(* api.SecretSpec and api.SecretMount: validation.  An error is its        *)
(* message, "" for nil.  A uint64 is its decimal numeral without leading   *)
(* zeros, so that the values around 2^63 and 2^64 keep their exact size.   *)
(***************************************************************************)
\* a <= b, for two numerals without leading zeros
NumLeq(a, b) ==
    \/ Len(a) < Len(b)
    \/ Len(a) = Len(b) /\ ~StrLess(b, a)

\* math.MaxUint64 and math.MaxInt64
MaxUint64 == "18446744073709551615"
MaxInt64 == "9223372036854775807"

\* the text strconv.Quote writes for one ASCII character: the quote and
\* the backslash after a backslash, a printable character as it is, the
\* bytes 7..13 by their letter, any other control byte and 127 as \x and
\* two hexadecimal digits
quoteChar(c) ==
    LET b == Byte(c)
        lowerhex == "0123456789abcdef"
        letters == "abtnvfr"
    IN  IF c = "\"" \/ c = "\\" THEN "\\" \o c
        ELSE IF 32 <= b /\ b < 127 THEN c
        ELSE IF 7 <= b /\ b <= 13 THEN "\\" \o SubSeq(letters, b - 6, b - 6)
        ELSE "\\x" \o SubSeq(lowerhex, (b \div 16) + 1, (b \div 16) + 1)
                 \o SubSeq(lowerhex, (b % 16) + 1, (b % 16) + 1)

RECURSIVE quoteChars(_)
quoteChars(s) ==
    IF Len(s) = 0 THEN "" ELSE quoteChar(Head(s)) \o quoteChars(Tail(s))

\* strconv.Quote, with which a *strconv.NumError prints its input
Quote(s) == "\"" \o quoteChars(s) \o "\""

\* the cutoff of strconv.ParseUint in base 10: MaxUint64 / 10 + 1, the least
\* n for which n * 10 overflows
Cutoff == "1844674407370955162"

\* the loop of strconv.ParseUint over the bytes not yet read, n the value
\* of the digits read: the first byte that is not a digit is a syntax
\* error, the first digit that takes the value past MaxUint64 a range error
RECURSIVE parseDigits(_, _)
parseDigits(rest, n) ==
    IF Len(rest) = 0 THEN [value |-> n, err |-> ""]
    ELSE LET c == Head(rest)
             n1 == IF n = "0" THEN c ELSE n \o c
         IN  IF IndexIn(c, Digits, 1) = 0
             THEN [value |-> "0", err |-> "invalid syntax"]
             ELSE IF NumLeq(Cutoff, n) \/ ~NumLeq(n1, MaxUint64)
             THEN [value |-> MaxUint64, err |-> "value out of range"]
             ELSE parseDigits(Tail(rest), n1)

\* strconv.ParseUint(s, 10, 64); the error is a *strconv.NumError
ParseUint(s) ==
    LET r == IF Len(s) = 0 THEN [value |-> "0", err |-> "invalid syntax"]
             ELSE parseDigits(s, "0")
    IN  IF r.err = "" THEN r
        ELSE [value |-> r.value,
              err |-> "strconv.ParseUint: parsing " \o Quote(s) \o ": "
                          \o r.err]

\* int(uid) < 0 where int has 64 bits: the conversion keeps the bits, so the
\* result is negative exactly when uid is above MaxInt64
intIsNegative_Never(uid) == FALSE

intIsNegative(uid) == ~NumLeq(uid, MaxInt64)

GetNumericUid(s) ==
    IF s.Uid = "" THEN [value |-> Nil, err |-> ""]
    ELSE LET r == ParseUint(s.Uid)
         IN  IF r.err # ""
             THEN [value |-> Nil,
                   err |-> "invalid Uid '" \o s.Uid \o "': " \o r.err]
             ELSE IF intIsNegative(r.value)
             THEN [value |-> Nil,
                   err |-> "invalid Uid '" \o s.Uid \o "': value too high"]
             ELSE [value |-> Ptr(r.value), err |-> ""]

GetNumericGid(s) ==
    IF s.Gid = "" THEN [value |-> Nil, err |-> ""]
    ELSE LET r == ParseUint(s.Gid)
         IN  IF r.err # ""
             THEN [value |-> Nil,
                   err |-> "invalid Gid '" \o s.Gid \o "': " \o r.err]
             ELSE IF intIsNegative(r.value)
             THEN [value |-> Nil,
                   err |-> "invalid Gid '" \o s.Gid \o "': value too high"]
             ELSE [value |-> Ptr(r.value), err |-> ""]

SecretSpecValidate(s) ==
    IF s.Name = "" THEN "secret name is required" ELSE ""

\* the mutant: the container path is checked before the owner
SecretMountValidate_PathBeforeOwner(s) ==
    IF s.SecretName = "" THEN "secret mount source is required"
    ELSE IF s.ContainerPath # "" /\ ~IsAbs(s.ContainerPath)
    THEN "container path must be absolute"
    ELSE IF GetNumericUid(s).err # "" THEN GetNumericUid(s).err
    ELSE IF GetNumericGid(s).err # "" THEN GetNumericGid(s).err
    ELSE ""

SecretMountValidate(s) ==
    IF s.SecretName = "" THEN "secret mount source is required"
    ELSE IF GetNumericUid(s).err # "" THEN GetNumericUid(s).err
    ELSE IF GetNumericGid(s).err # "" THEN GetNumericGid(s).err
    ELSE IF s.ContainerPath # "" /\ ~IsAbs(s.ContainerPath)
    THEN "container path must be absolute"
    ELSE ""

\* secretMap[secret.Name] = struct{}{}
rememberName_OnlyTheLast(secretMap, secret) == {secret.Name}

rememberName(secretMap, secret) == secretMap \cup {secret.Name}

\* the first loop of ValidateSecretsAndMounts, from the specs not yet
\* visited and the names seen so far
RECURSIVE validateSecrets(_, _)
validateSecrets(specs, secretMap) ==
    IF specs = <<>> THEN [err |-> "", secretMap |-> secretMap]
    ELSE LET secret == Head(specs)
         IN  IF SecretSpecValidate(secret) # ""
             THEN [err |-> "invalid secret: " \o SecretSpecValidate(secret),
                   secretMap |-> secretMap]
             ELSE IF secret.Name \in secretMap
             THEN [err |-> "duplicate secret name: '" \o secret.Name \o "'",
                   secretMap |-> secretMap]
             ELSE validateSecrets(Tail(specs),
                                  rememberName(secretMap, secret))

\* _, exists := secretMap[mount.SecretName]; !exists
danglingCond_NeverDangling(mount, secretMap) == FALSE

danglingCond(mount, secretMap) == mount.SecretName \notin secretMap

\* the second loop
RECURSIVE validateMounts(_, _)
validateMounts(mounts, secretMap) ==
    IF mounts = <<>> THEN ""
    ELSE LET mount == Head(mounts)
         IN  IF SecretMountValidate(mount) # ""
             THEN "invalid secret mount: " \o SecretMountValidate(mount)
             ELSE IF danglingCond(mount, secretMap)
             THEN "secret mount source '" \o mount.SecretName
                      \o "' does not refer to any defined secret"
             ELSE validateMounts(Tail(mounts), secretMap)

ValidateSecretsAndMounts(specs, mounts) ==
    LET r == validateSecrets(specs, {})
    IN  IF r.err # "" THEN r.err ELSE validateMounts(mounts, r.secretMap)

\* one call of ValidateSecretsAndMounts, on the lists it is given or on the
\* lists a successful resolution returned
Validate ==
    /\ pc \in {"validate", "resolved"}
    /\ err = ""
    /\ validateErr' = ValidateSecretsAndMounts(secretSpecs, secretMounts)
    /\ pc' = "validated"
    /\ UNCHANGED <<project, warnings, secrets, serviceSecrets, workingDir,
                   files, secretSpecs, secretMounts, err, fileReads,
                   pullVars>>

(***************************************************************************)
(* SpecResolve: one call of secretSpecsFromCompose, and the validation of   *)
(* what it returned.                                                       *)
(***************************************************************************)
InitResolve ==
    /\ pc = "resolve"
    /\ secrets = ProjectSecrets
    /\ serviceSecrets \in SeqsUpTo(ServiceSecretConfigs, MaxRefs)
    /\ workingDir \in WorkingDirs
    /\ files = FileSystem
    /\ secretSpecs = <<>>
    /\ secretMounts = <<>>
    /\ err = ""
    /\ fileReads = <<>>
    /\ validateErr = ""
    /\ ScannerIdle
    /\ PullIdle

Resolve ==
    /\ pc = "resolve"
    /\ LET r == secretSpecsFromCompose(secrets, serviceSecrets, workingDir,
                                       files)
       IN  /\ secretSpecs' = r.specs
           /\ secretMounts' = r.mounts
           /\ err' = r.err
           /\ fileReads' = r.reads
    /\ pc' = "resolved"
    /\ UNCHANGED <<project, warnings, secrets, serviceSecrets, workingDir,
                   files, validateErr, pullVars>>

NextResolve == Resolve \/ Validate

SpecResolve == InitResolve /\ [][NextResolve]_vars

(***************************************************************************)
(* Properties of the resolver.                                             *)
(***************************************************************************)
\* the path os.ReadFile is called with for a definition with a file path:
\* an absolute path as it is written, a relative one joined to the working
\* directory
PathHanded(def) ==
    IF IsAbs(def.File) THEN def.File ELSE Join(workingDir, def.File)

\* the reference cannot be resolved: its name is not defined, its
\* definition is external, or its file cannot be read
RefFails(ref) ==
    \/ ref.Source \notin DOMAIN secrets
    \/ secrets[ref.Source].External
    \/ /\ secrets[ref.Source].File # ""
       /\ ReadFile(files, PathHanded(secrets[ref.Source])).err # ""

\* C7: after a successful resolution the content of the i-th spec is the
\* bytes of the definition's file (joined to the working directory when
\* relative) if the definition has a file path, whatever inline content it
\* has, and the inline content otherwise.
C7_SpecContent ==
    (pc = "resolved" /\ err = "") =>
        \A i \in DOMAIN secretSpecs :
            LET def == secrets[serviceSecrets[i].Source]
            IN  secretSpecs[i].Content =
                    IF def.File # ""
                    THEN ReadFile(files, PathHanded(def)).data
                    ELSE def.Content

\* in /srv/app: a definition with content and an absolute file resolved to
\* the file's bytes, and one with a relative file resolved to the bytes of
\* the file under /srv/app
C7_Witness ==
    /\ pc = "resolved" /\ err = ""
    /\ workingDir = "/srv/app"
    /\ \E i, j \in DOMAIN secretSpecs :
        /\ secrets[serviceSecrets[i].Source].Content # ""
        /\ IsAbs(secrets[serviceSecrets[i].Source].File)
        /\ secretSpecs[i].Content = "pem"
        /\ secrets[serviceSecrets[j].Source].File = "./secret.txt"
        /\ secretSpecs[j].Content = "from /srv/app"

\* C8: when a reference names an external definition, the call returns an
\* error, no specs and no mounts.
C8_ExternalRejected ==
    (/\ pc = "resolved"
     /\ \E i \in DOMAIN serviceSecrets :
            /\ serviceSecrets[i].Source \in DOMAIN secrets
            /\ secrets[serviceSecrets[i].Source].External)
        => (err # "" /\ secretSpecs = <<>> /\ secretMounts = <<>>)

\* a resolvable reference followed by one to an external definition that has
\* content and a file: the external-secret error, and nothing else
C8_Witness ==
    /\ pc = "resolved"
    /\ Len(serviceSecrets) = 2
    /\ ~RefFails(serviceSecrets[1])
    /\ secrets[serviceSecrets[2].Source].External
    /\ secrets[serviceSecrets[2].Source].Content # ""
    /\ err = "external secrets are not supported: vault"
    /\ secretSpecs = <<>> /\ secretMounts = <<>>

\* C9: the call fails exactly when some reference cannot be resolved, and a
\* failed call returns neither specs nor mounts.
C9_AllOrNothing ==
    pc = "resolved" =>
        /\ err # "" <=> \E k \in DOMAIN serviceSecrets : RefFails(serviceSecrets[k])
        /\ err # "" => (secretSpecs = <<>> /\ secretMounts = <<>>)

\* a file-backed reference that resolves, then one whose file is missing
C9_Witness ==
    /\ pc = "resolved"
    /\ Len(serviceSecrets) = 2
    /\ ~RefFails(serviceSecrets[1])
    /\ fileReads # <<>>
    /\ serviceSecrets[2].Source = "gone"
    /\ err # ""
    /\ secretSpecs = <<>> /\ secretMounts = <<>>

\* C10: after a successful resolution the container path of the i-th mount
\* is the reference's target, or "/run/secrets/" and the reference's source
\* when the target is empty.
C10_ContainerPath ==
    (pc = "resolved" /\ err = "") =>
        \A i \in DOMAIN secretMounts :
            secretMounts[i].ContainerPath =
                IF serviceSecrets[i].Target # "" THEN serviceSecrets[i].Target
                ELSE "/run/secrets/" \o serviceSecrets[i].Source

\* one reference without a target and one with
C10_Witness ==
    /\ pc = "resolved" /\ err = ""
    /\ \E i, j \in DOMAIN secretMounts :
        /\ serviceSecrets[i].Target = ""
        /\ secretMounts[i].ContainerPath = "/run/secrets/filed"
        /\ serviceSecrets[j].Target # ""
        /\ secretMounts[j].ContainerPath = serviceSecrets[j].Target

\* C13: after a successful resolution the names of the specs are pairwise
\* distinct, and the name of every mount is the name of exactly one spec.
C13_DistinctNames ==
    (pc = "resolved" /\ err = "") =>
        /\ \A i, j \in DOMAIN secretSpecs :
            secretSpecs[i].Name = secretSpecs[j].Name => i = j
        /\ \A m \in DOMAIN secretMounts :
            Cardinality({i \in DOMAIN secretSpecs :
                secretSpecs[i].Name = secretMounts[m].SecretName}) = 1

(***************************************************************************)
(* The arguments the validator is run on.                                  *)
(***************************************************************************)
SecretSpecOf(name, content) == [Name |-> name, Content |-> content]

SecretMountOf(name, path, uid, gid) ==
    [SecretName |-> name, ContainerPath |-> path, Uid |-> uid, Gid |-> gid,
     Mode |-> Nil]

\* a spec without a name, two specs of one name with different contents, and
\* one of another name with the content of the first
ValidatorSpecs ==
    {SecretSpecOf("", "x"), SecretSpecOf("a", "x"), SecretSpecOf("a", "y"),
     SecretSpecOf("b", "x")}

\* owner strings: empty, plain, with leading zeros, signed, not a number,
\* with a quote, a tab or a bell, which strconv.Quote escapes, the last value
\* an int holds and the next, the last value a uint64 holds and the next,
\* one digit more, and numerals past the last value followed or preceded by
\* a letter
OwnerStrings ==
    {"", "0", "1000", "007", "-1", "+5", "abc", "12a", "a\"b", "1\t",
     "7" \o SubSeq(Control, 7, 7),
     "9223372036854775807", "9223372036854775808", "09223372036854775808",
     "18446744073709551615", "18446744073709551616", "99999999999999999999",
     "18446744073709551616x", "x18446744073709551616"}

\* mounts with any combination of the defects Validate looks for: no name or
\* an undefined one, a bad uid, a bad gid, a relative path
FewMounts ==
    {SecretMountOf(name, path, uid, gid) :
        name \in {"", "a", "zz"}, path \in {"/run/secrets/a", "rel"},
        uid \in {"1000", "abc"}, gid \in {"", "-1"}}

\* one mount with any pair of owner strings
OwnerMounts ==
    {SecretMountOf(name, path, uid, gid) :
        name \in {"a", "zz"}, path \in {"", "rel"},
        uid \in OwnerStrings, gid \in OwnerStrings}

\* a sound mount of a defined secret, sound mounts of two undefined ones,
\* and malformed mounts of a defined and of an undefined secret
TriageMounts ==
    {SecretMountOf("a", "", "", ""), SecretMountOf("zz", "", "", ""),
     SecretMountOf("yy", "", "", ""), SecretMountOf("a", "", "abc", ""),
     SecretMountOf("zz", "rel", "", "")}

\* any specs with few mounts, few specs with any mounts, one spec with one
\* more mount out of a handful, and one spec with one mount of any owner
ValidatorInputs ==
    ({[specs |-> specs, mounts |-> mounts] :
        specs \in SeqsUpTo(ValidatorSpecs, MaxSpecs),
        mounts \in {<<>>, <<SecretMountOf("a", "", "", "")>>,
                    <<SecretMountOf("zz", "rel", "abc", "-1")>>}})
    \cup
    ({[specs |-> specs, mounts |-> mounts] :
        specs \in {<<SecretSpecOf("a", "x")>>,
                   <<SecretSpecOf("b", "x"), SecretSpecOf("a", "y")>>},
        mounts \in SeqsUpTo(FewMounts, MaxMounts)})
    \cup
    ({[specs |-> <<SecretSpecOf("a", "x")>>, mounts |-> mounts] :
        mounts \in [1..(MaxMounts + 1) -> TriageMounts]})
    \cup
    ({[specs |-> <<SecretSpecOf("a", "x")>>, mounts |-> <<mount>>] :
        mount \in OwnerMounts})

(***************************************************************************)
(* SpecValidate: one call of ValidateSecretsAndMounts.                     *)
(***************************************************************************)
InitValidate ==
    /\ pc = "validate"
    /\ \E input \in ValidatorInputs :
        /\ secretSpecs = input.specs
        /\ secretMounts = input.mounts
    /\ secrets = <<>>
    /\ serviceSecrets = <<>>
    /\ workingDir = ""
    /\ files = <<>>
    /\ err = ""
    /\ fileReads = <<>>
    /\ validateErr = ""
    /\ ScannerIdle
    /\ PullIdle

NextValidate == Validate

SpecValidate == InitValidate /\ [][NextValidate]_vars

(***************************************************************************)
(* Properties of the validator.                                            *)
(***************************************************************************)
\* the error names one of the specs as a duplicate
IsDuplicateNameError(e) ==
    \E i \in DOMAIN secretSpecs :
        e = "duplicate secret name: '" \o secretSpecs[i].Name \o "'"

\* C11: when two specs of the list have the same non-empty name, whatever
\* their contents, and no spec up to the second of them has an empty name,
\* validation fails with the duplicate-secret-name error.
C11_DuplicateName ==
    pc = "validated" =>
        \A i, j \in DOMAIN secretSpecs :
            (/\ i < j
             /\ secretSpecs[i].Name = secretSpecs[j].Name
             /\ \A k \in 1..j : secretSpecs[k].Name # "")
                => IsDuplicateNameError(validateErr)

\* two specs named a with different contents and another spec between them
C11_Witness ==
    /\ pc = "validated"
    /\ Len(secretSpecs) = 3
    /\ secretSpecs[1].Name = "a" /\ secretSpecs[3].Name = "a"
    /\ secretSpecs[2].Name = "b"
    /\ secretSpecs[1].Content # secretSpecs[3].Content
    /\ validateErr = "duplicate secret name: 'a'"

\* the specs pass the first loop: every name is set and no name is repeated
SpecsValid ==
    /\ \A i \in DOMAIN secretSpecs : secretSpecs[i].Name # ""
    /\ \A i, j \in DOMAIN secretSpecs :
        secretSpecs[i].Name = secretSpecs[j].Name => i = j

SpecNames == {secretSpecs[i].Name : i \in DOMAIN secretSpecs}

\* the mount is well-formed and names no spec
Dangling(mount) ==
    /\ SecretMountValidate(mount) = ""
    /\ mount.SecretName \notin SpecNames

\* the error names one of the mounts as not referring to a defined secret
IsDanglingError(e) ==
    \E i \in DOMAIN secretMounts :
        e = "secret mount source '" \o secretMounts[i].SecretName
                \o "' does not refer to any defined secret"

\* C12 as stated: when the specs are valid and some well-formed mount names
\* no spec, validation fails with the dangling-reference error; validation
\* succeeds only if every mount names a spec.
C12_AsStated ==
    pc = "validated" =>
        /\ (/\ SpecsValid
            /\ \E j \in DOMAIN secretMounts : Dangling(secretMounts[j]))
                => IsDanglingError(validateErr)
        /\ validateErr = "" =>
            \A j \in DOMAIN secretMounts :
                secretMounts[j].SecretName \in SpecNames

\* the mount passes the second loop: it is well-formed and names a spec
MountPasses(mount) ==
    /\ SecretMountValidate(mount) = ""
    /\ mount.SecretName \in SpecNames

\* C12: when the specs are valid, the first mount of the list that is
\* malformed or names no spec decides the result: the dangling-reference
\* error naming it when it is well-formed, its own error when it is
\* malformed.  So a well-formed mount that names no spec yields the
\* dangling-reference error whenever every mount before it is well-formed,
\* and validation succeeds only if every mount names a spec.
C12_DanglingReference ==
    pc = "validated" =>
        /\ SpecsValid =>
            \A j \in DOMAIN secretMounts :
                (\A k \in 1..(j - 1) : MountPasses(secretMounts[k])) =>
                    /\ Dangling(secretMounts[j]) =>
                        validateErr =
                            "secret mount source '"
                                \o secretMounts[j].SecretName
                                \o "' does not refer to any defined secret"
                    /\ SecretMountValidate(secretMounts[j]) # "" =>
                        validateErr =
                            "invalid secret mount: "
                                \o SecretMountValidate(secretMounts[j])
        /\ (/\ SpecsValid
            /\ \E j \in DOMAIN secretMounts :
                /\ Dangling(secretMounts[j])
                /\ \A k \in 1..j : SecretMountValidate(secretMounts[k]) = "")
                => IsDanglingError(validateErr)
        /\ validateErr = "" =>
            \A j \in DOMAIN secretMounts :
                secretMounts[j].SecretName \in SpecNames

\* a well-formed mount of an undefined secret, then a malformed mount, then
\* a well-formed mount of another undefined secret: the error names the
\* first
C12_Witness ==
    /\ pc = "validated"
    /\ SpecsValid
    /\ Len(secretMounts) = 3
    /\ Dangling(secretMounts[1])
    /\ secretMounts[1].SecretName = "zz"
    /\ SecretMountValidate(secretMounts[2]) # ""
    /\ Dangling(secretMounts[3])
    /\ secretMounts[3].SecretName = "yy"
    /\ validateErr =
        "secret mount source 'zz' does not refer to any defined secret"

\* s holds decimal digits only
RECURSIVE AllDigits(_)
AllDigits(s) ==
    Len(s) = 0 \/ (IndexIn(Head(s), Digits, 1) > 0 /\ AllDigits(Tail(s)))

\* the numeral s without its leading zeros
RECURSIVE StripZeros(_)
StripZeros(s) ==
    IF Len(s) > 1 /\ Head(s) = "0" THEN StripZeros(Tail(s)) ELSE s

\* the owner string s is a decimal numeral of a value up to max
NumeralUpTo(s, max) ==
    /\ Len(s) > 0
    /\ AllDigits(s)
    /\ NumLeq(StripZeros(s), max)

\* some leading run of digits of s is the numeral of a value above 2^64-1
DigitsOverflow(s) ==
    \E k \in 1..Len(s) :
        /\ AllDigits(SubSeq(s, 1, k))
        /\ ~NumLeq(StripZeros(SubSeq(s, 1, k)), MaxUint64)

\* the error of strconv.ParseUint for a string that is not the numeral of a
\* value up to 2^64-1
ParseError(s) ==
    "strconv.ParseUint: parsing " \o Quote(s) \o ": "
        \o (IF DigitsOverflow(s) THEN "value out of range"
            ELSE "invalid syntax")

\* what GetNumericUid and GetNumericGid return for an accepted owner string
NumericOwner(s) ==
    [value |-> IF s = "" THEN Nil ELSE Ptr(StripZeros(s)), err |-> ""]

\* the call validated one mount whose name and path are in order, so that
\* the result depends on its uid and gid only
OnlyOwnerInQuestion ==
    /\ pc = "validated"
    /\ SpecsValid
    /\ Len(secretMounts) = 1
    /\ secretMounts[1].SecretName \in SpecNames
    /\ secretMounts[1].ContainerPath = ""

\* C14 as stated: a uid, and likewise a gid, is accepted exactly when it is
\* empty or the decimal numeral of a value in 0..2^64-1, and GetNumericUid
\* and GetNumericGid then return that value.
C14_AsStated ==
    OnlyOwnerInQuestion =>
        LET mount == secretMounts[1]
            uidOk == mount.Uid = "" \/ NumeralUpTo(mount.Uid, MaxUint64)
            gidOk == mount.Gid = "" \/ NumeralUpTo(mount.Gid, MaxUint64)
        IN  /\ validateErr = "" <=> (uidOk /\ gidOk)
            /\ uidOk => GetNumericUid(mount) = NumericOwner(mount.Uid)
            /\ gidOk => GetNumericGid(mount) = NumericOwner(mount.Gid)

\* C14: a uid, and likewise a gid, is accepted exactly when it is empty or
\* the decimal numeral of a value in 0..2^63-1, and GetNumericUid and
\* GetNumericGid then return that value; a numeral of a value in
\* 2^63..2^64-1 is rejected as too high, and any other string with the
\* error of strconv.ParseUint: out of range when a leading run of its digits
\* is past 2^64-1, invalid syntax otherwise.
C14_OwnerAccepted ==
    OnlyOwnerInQuestion =>
        LET mount == secretMounts[1]
            uidOk == mount.Uid = "" \/ NumeralUpTo(mount.Uid, MaxInt64)
            gidOk == mount.Gid = "" \/ NumeralUpTo(mount.Gid, MaxInt64)
        IN  /\ validateErr = "" <=> (uidOk /\ gidOk)
            /\ uidOk => GetNumericUid(mount) = NumericOwner(mount.Uid)
            /\ gidOk => GetNumericGid(mount) = NumericOwner(mount.Gid)
            /\ (~uidOk /\ NumeralUpTo(mount.Uid, MaxUint64)) =>
                validateErr = "invalid secret mount: invalid Uid '"
                                  \o mount.Uid \o "': value too high"
            /\ (uidOk /\ ~gidOk /\ NumeralUpTo(mount.Gid, MaxUint64)) =>
                validateErr = "invalid secret mount: invalid Gid '"
                                  \o mount.Gid \o "': value too high"
            /\ (~uidOk /\ ~NumeralUpTo(mount.Uid, MaxUint64)) =>
                validateErr = "invalid secret mount: invalid Uid '"
                                  \o mount.Uid \o "': " \o ParseError(mount.Uid)
            /\ (uidOk /\ ~gidOk /\ ~NumeralUpTo(mount.Gid, MaxUint64)) =>
                validateErr = "invalid secret mount: invalid Gid '"
                                  \o mount.Gid \o "': " \o ParseError(mount.Gid)

\* a uid of 2^63-1 passes and the gid 2^64-1 after it is rejected
C14_Witness ==
    /\ OnlyOwnerInQuestion
    /\ secretMounts[1].Uid = "9223372036854775807"
    /\ secretMounts[1].Gid = "18446744073709551615"
    /\ validateErr = "invalid secret mount: invalid Gid '18446744073709551615': value too high"

(***************************************************************************)
(* Properties of the resolver, continued.                                  *)
(***************************************************************************)
\* C15: after a successful resolution the container path of every mount is
\* absolute, whether the reference's target was empty, absolute or relative.
C15_AbsolutePaths ==
    (pc = "resolved" /\ err = "") =>
        \A i \in DOMAIN secretMounts : IsAbs(secretMounts[i].ContainerPath)

(***************************************************************************)
(* Properties of the scanner, continued.                                   *)
(***************************************************************************)
\* how many warnings of the output have this service and this key
Count(name, key) ==
    Cardinality({i \in DOMAIN warnings :
        warnings[i].Service = name /\ warnings[i].Key = key})

\* the constraints list has at least one entry
HasConstraints(placement) ==
    placement.Constraints # Nil /\ Len(placement.Constraints[1]) > 0

\* C17: a service with a deploy block gets exactly one deploy.placement
\* warning when its placement constraints or preferences have an entry, and
\* none when both are empty, a constraints list that is present without
\* entries included.
C17_Placement ==
    pc = "scanned" =>
        \A name \in DOMAIN project.Services :
            LET service == project.Services[name]
            IN  service.Deploy # Nil =>
                    Count(name, "deploy.placement") =
                        IF \/ HasConstraints(service.Deploy[1].Placement)
                           \/ Len(service.Deploy[1].Placement.Preferences) > 0
                        THEN 1 ELSE 0

\* the keys of the five update_config warnings
UpdateKeys ==
    {"deploy.update_config.parallelism", "deploy.update_config.delay",
     "deploy.update_config.failure_action", "deploy.update_config.monitor",
     "deploy.update_config.max_failure_ratio"}

\* the update_config of a service, the zero one when the service has none
UpdateConfigOf(service) ==
    IF service.Deploy # Nil /\ service.Deploy[1].UpdateConfig # Nil
    THEN service.Deploy[1].UpdateConfig[1]
    ELSE ZeroUpdateConfig

\* 1 when the condition holds, 0 otherwise
OneIf(cond) == IF cond THEN 1 ELSE 0

\* no warning of the output is about update_config.order or deploy.replicas
NeverOrderOrReplicas ==
    \A i \in DOMAIN warnings :
        warnings[i].Key \notin {"deploy.update_config.order", "deploy.replicas"}

\* C18 as stated: each of the five update_config fields gets its own warning
\* exactly when it is set to a value other than zero, so that a parallelism
\* of 0 gets none; order and replicas never get one.
C18_AsStated ==
    pc = "scanned" =>
        /\ \A name \in DOMAIN project.Services :
            LET uc == UpdateConfigOf(project.Services[name])
            IN  /\ Count(name, "deploy.update_config.parallelism") =
                    OneIf(uc.Parallelism # Nil /\ uc.Parallelism[1] # 0)
                /\ Count(name, "deploy.update_config.delay") =
                    OneIf(uc.Delay # 0)
                /\ Count(name, "deploy.update_config.failure_action") =
                    OneIf(uc.FailureAction # "")
                /\ Count(name, "deploy.update_config.monitor") =
                    OneIf(uc.Monitor # 0)
                /\ Count(name, "deploy.update_config.max_failure_ratio") =
                    OneIf(uc.MaxFailureRatio # 0)
        /\ NeverOrderOrReplicas

\* C18: parallelism gets its warning exactly when it is set, 0 included;
\* delay, monitor and max_failure_ratio exactly when greater than zero;
\* failure_action exactly when not empty; each on its own.  Order and
\* replicas never get one.
C18_UpdateConfig ==
    pc = "scanned" =>
        /\ \A name \in DOMAIN project.Services :
            LET uc == UpdateConfigOf(project.Services[name])
            IN  /\ Count(name, "deploy.update_config.parallelism") =
                    OneIf(uc.Parallelism # Nil)
                /\ Count(name, "deploy.update_config.delay") =
                    OneIf(uc.Delay > 0)
                /\ Count(name, "deploy.update_config.failure_action") =
                    OneIf(uc.FailureAction # "")
                /\ Count(name, "deploy.update_config.monitor") =
                    OneIf(uc.Monitor > 0)
                /\ Count(name, "deploy.update_config.max_failure_ratio") =
                    OneIf(uc.MaxFailureRatio > 0)
        /\ NeverOrderOrReplicas

\* a parallelism of 0 next to an order: the parallelism warning and no other
C18_Witness ==
    /\ pc = "scanned"
    /\ "web" \in DOMAIN project.Services
    /\ UpdateConfigOf(project.Services["web"]).Parallelism = Ptr(0)
    /\ UpdateConfigOf(project.Services["web"]).Order # ""
    /\ warnings = <<[Service |-> "web",
                     Key |-> "deploy.update_config.parallelism"]>>

\* C19: no two warnings of one scan have the same service and the same key.
C19_UniquePerServiceAndKey ==
    pc = "scanned" =>
        \A i, j \in DOMAIN warnings :
            (/\ warnings[i].Service = warnings[j].Service
             /\ warnings[i].Key = warnings[j].Key) => i = j

\* one key under two services, and two keys, one of them of the deploy
\* block, under one service
C19_Witness ==
    /\ pc = "scanned"
    /\ \E i, j \in DOMAIN warnings :
        /\ warnings[i].Key = warnings[j].Key
        /\ warnings[i].Service # warnings[j].Service
    /\ \E i, j \in DOMAIN warnings :
        /\ warnings[i].Service = warnings[j].Service
        /\ IsDeployKey(warnings[i].Key)
        /\ ~IsDeployKey(warnings[j].Key)

(***************************************************************************)
(* Properties of the resolver followed by the validator.                   *)
(***************************************************************************)
\* two references name the secret source, and every reference resolves
NamedTwice(source) ==
    /\ \E i, j \in DOMAIN serviceSecrets :
        /\ i < j
        /\ serviceSecrets[i].Source = source
        /\ serviceSecrets[j].Source = source
    /\ \A k \in DOMAIN serviceSecrets : ~RefFails(serviceSecrets[k])

\* C20: when two references name the same resolvable secret, the resolver
\* succeeds and returns one spec of that name for each of them, and the
\* validator, given what the resolver returned, fails with the
\* duplicate-secret-name error.
C20_DuplicatesReachTheValidator ==
    /\ pc \in {"resolved", "validated"} =>
        \A source \in DOMAIN secrets :
            NamedTwice(source) =>
                /\ err = ""
                /\ Len(secretSpecs) = Len(serviceSecrets)
                /\ \A i \in DOMAIN serviceSecrets :
                    serviceSecrets[i].Source = source
                        => secretSpecs[i].Name = source
    /\ pc = "validated" =>
        ((\E source \in DOMAIN secrets : NamedTwice(source))
            => \E source \in DOMAIN secrets :
                /\ NamedTwice(source)
                /\ validateErr = "duplicate secret name: '" \o source \o "'")

\* the file-backed secret referenced twice, at two targets
C20_Witness ==
    /\ pc = "validated"
    /\ Len(serviceSecrets) = 2
    /\ serviceSecrets[1].Source = "filed" /\ serviceSecrets[2].Source = "filed"
    /\ serviceSecrets[1].Target # serviceSecrets[2].Target
    /\ secretSpecs[1].Name = "filed" /\ secretSpecs[2].Name = "filed"
    /\ validateErr = "duplicate secret name: 'filed'"

(***************************************************************************)
(* Properties of the resolver: order, owners, modes and file reads.        *)
(***************************************************************************)
\* C21: a successful resolution returns one spec and one mount for each
\* reference, in the order of the references: the i-th spec and the i-th
\* mount have the name of the i-th reference's source, the mount has the
\* reference's uid and gid as they are written, and it has a mode exactly
\* when the reference has one.
C21_OnePerReference ==
    (pc = "resolved" /\ err = "") =>
        /\ Len(secretSpecs) = Len(serviceSecrets)
        /\ Len(secretMounts) = Len(serviceSecrets)
        /\ \A i \in DOMAIN serviceSecrets :
            /\ secretSpecs[i].Name = serviceSecrets[i].Source
            /\ secretMounts[i].SecretName = serviceSecrets[i].Source
            /\ secretMounts[i].Uid = serviceSecrets[i].UID
            /\ secretMounts[i].Gid = serviceSecrets[i].GID
            /\ secretMounts[i].Mode # Nil <=> serviceSecrets[i].Mode # Nil

\* a reference with a uid with leading zeros, a gid that is no number and a
\* mode of 0, then a reference to another secret without owner and mode
C21_Witness ==
    /\ pc = "resolved" /\ err = ""
    /\ Len(serviceSecrets) = 2
    /\ serviceSecrets[1].Source # serviceSecrets[2].Source
    /\ serviceSecrets[1].Mode = Ptr(0)
    /\ secretMounts[1].Uid = "007" /\ secretMounts[1].Gid = "wheel"
    /\ secretMounts[1].Mode = Ptr(0)
    /\ serviceSecrets[2].Mode = Nil
    /\ secretMounts[2].Uid = "" /\ secretMounts[2].Mode = Nil

(***************************************************************************)
(* Properties of the validator: the order of the checks.                   *)
(***************************************************************************)
\* the spec at i has no name, or the name of a spec before it
BadSpecAt(i) ==
    \/ secretSpecs[i].Name = ""
    \/ \E k \in 1..(i - 1) : secretSpecs[k].Name = secretSpecs[i].Name

\* what is wrong with the owner string s of the field named: nothing when
\* it is empty or the numeral of a value up to 2^63-1, too high a value up
\* to 2^64-1, and the error of strconv.ParseUint otherwise
OwnerDefect(field, s) ==
    IF s = "" \/ NumeralUpTo(s, MaxInt64) THEN ""
    ELSE "invalid " \o field \o " '" \o s \o "': "
             \o (IF NumeralUpTo(s, MaxUint64) THEN "value too high"
                 ELSE ParseError(s))

\* what is wrong with a mount, the checks taken in the order name, uid, gid,
\* container path, membership; "" when nothing is
MountDefect(mount) ==
    IF mount.SecretName = ""
    THEN "invalid secret mount: secret mount source is required"
    ELSE IF OwnerDefect("Uid", mount.Uid) # ""
    THEN "invalid secret mount: " \o OwnerDefect("Uid", mount.Uid)
    ELSE IF OwnerDefect("Gid", mount.Gid) # ""
    THEN "invalid secret mount: " \o OwnerDefect("Gid", mount.Gid)
    ELSE IF mount.ContainerPath # "" /\ ~IsAbs(mount.ContainerPath)
    THEN "invalid secret mount: container path must be absolute"
    ELSE IF mount.SecretName \notin SpecNames
    THEN "secret mount source '" \o mount.SecretName
             \o "' does not refer to any defined secret"
    ELSE ""

\* the first failure in the fixed order: the first bad spec if there is one,
\* else the first defect of the first mount that has one, else none
FirstFailure ==
    IF \E i \in DOMAIN secretSpecs : BadSpecAt(i)
    THEN LET i == CHOOSE n \in DOMAIN secretSpecs :
                      /\ BadSpecAt(n)
                      /\ \A k \in 1..(n - 1) : ~BadSpecAt(k)
         IN  IF secretSpecs[i].Name = ""
             THEN "invalid secret: secret name is required"
             ELSE "duplicate secret name: '" \o secretSpecs[i].Name \o "'"
    ELSE IF \E j \in DOMAIN secretMounts : MountDefect(secretMounts[j]) # ""
    THEN LET j == CHOOSE n \in DOMAIN secretMounts :
                      /\ MountDefect(secretMounts[n]) # ""
                      /\ \A k \in 1..(n - 1) : MountDefect(secretMounts[k]) = ""
         IN  MountDefect(secretMounts[j])
    ELSE ""

\* C22: the validator reports the first failure in a fixed order: the specs
\* in list order, each for an empty name and then for the repeat of an
\* earlier name, before any mount; then the mounts in list order, each for
\* an empty secret name, its uid, its gid, a container path that is not
\* absolute, and last its membership in the spec set.
C22_FirstFailure ==
    pc = "validated" => validateErr = FirstFailure

\* a sound mount, then one with a bad uid, a bad gid, a relative path and
\* an undefined name: the uid error
C22_Witness ==
    /\ pc = "validated"
    /\ SpecsValid
    /\ Len(secretMounts) = 2
    /\ MountDefect(secretMounts[1]) = ""
    /\ secretMounts[2] = SecretMountOf("zz", "rel", "abc", "-1")
    /\ validateErr = "invalid secret mount: invalid Uid 'abc': strconv.ParseUint: parsing \"abc\": invalid syntax"

(***************************************************************************)
(* Properties of the resolver: where it stops and what it reads.           *)
(***************************************************************************)
\* the error a reference that cannot be resolved is reported with
RefError(ref) ==
    IF ref.Source \notin DOMAIN secrets
    THEN "secret '" \o ref.Source \o "' not found in project secrets"
    ELSE IF secrets[ref.Source].External
    THEN "external secrets are not supported: " \o ref.Source
    ELSE "read secret from file '" \o secrets[ref.Source].File \o "': "
             \o ReadFile(files, PathHanded(secrets[ref.Source])).err

\* the index of the first reference that cannot be resolved, one past the
\* last reference when all can
FirstFailing ==
    LET failing == {k \in DOMAIN serviceSecrets : RefFails(serviceSecrets[k])}
    IN  IF failing = {} THEN Len(serviceSecrets) + 1
        ELSE CHOOSE k \in failing : \A l \in failing : k <= l

\* the references whose file is handed to os.ReadFile: the file-backed ones
\* up to the first failing reference, itself included when it is one
Readers ==
    {k \in DOMAIN serviceSecrets :
        /\ k <= FirstFailing
        /\ serviceSecrets[k].Source \in DOMAIN secrets
        /\ ~secrets[serviceSecrets[k].Source].External
        /\ secrets[serviceSecrets[k].Source].File # ""}

\* C23: the references are processed in input order up to the first one
\* that fails: the error is that reference's, no file of a later reference
\* is read, and the file of each file-backed reference before it is read
\* once for that reference, two references to one secret reading it twice.
C23_StopsAtFirstFailure ==
    pc = "resolved" =>
        LET first == FirstFailing
            readers == Readers
        IN  /\ err = IF first > Len(serviceSecrets) THEN ""
                     ELSE RefError(serviceSecrets[first])
            /\ Len(fileReads) = Cardinality(readers)
            /\ \A k \in readers :
                fileReads[Cardinality({r \in readers : r <= k})] =
                    PathHanded(secrets[serviceSecrets[k].Source])

\* a reference whose file is missing, then one whose file exists: the first
\* reference's error, and its file the only one handed to os.ReadFile
C23_Witness ==
    /\ pc = "resolved"
    /\ workingDir = "/srv/app"
    /\ Len(serviceSecrets) = 2
    /\ serviceSecrets[1].Source = "gone"
    /\ serviceSecrets[2].Source = "filed"
    /\ fileReads = <<"/srv/app/missing.txt">>
    /\ err = "read secret from file 'missing.txt': open /srv/app/missing.txt: no such file or directory"

(***************************************************************************)
(* The image pull command (cmd/uncloud/image/pull.go): the function handed *)
(* to progress.RunWithTitle.  A progress.Event is a record of its fields,  *)
(* its Status "Working" (the zero value) or "Done".  The bar that          *)
(* jsonmessage.JSONProgress.String() draws is not modelled: its place is   *)
(* taken by a text naming the two numbers it is drawn from.                *)
(***************************************************************************)
Event(id, parentID, text, status, statusText) ==
    [ID |-> id, ParentID |-> parentID, Text |-> text, Status |-> status,
     StatusText |-> statusText, Current |-> 0, Total |-> 0, Percent |-> 0]

\* eventID := fmt.Sprintf("Pulling %s", img)
eventIDOf(img) == "Pulling " \o img

ProgressString(progress) ==
    "JSONProgress.String(" \o ToString(progress.Current) \o ", "
        \o ToString(progress.Total) \o ")"

\* a / b of two Go integers, b # 0: the quotient truncated toward zero
Quo(a, b) ==
    LET abs(x) == IF x < 0 THEN 0 - x ELSE x
        q == abs(a) \div abs(b)
    IN  IF (a < 0) = (b < 0) THEN q ELSE 0 - q

\* nil, or a pointer to the event of a layer.  Current and Total are int64
\* in the code; the values drawn here keep Current * 100 far from 2^63,
\* where the code's product would wrap.
toProgressEvent(jm) ==
    IF jm.ID = "" \/ jm.Progress = Nil THEN Nil
    ELSE LET progress == jm.Progress[1]
             ratio == IF progress.Total > 0
                      THEN Quo(progress.Current * 100, progress.Total)
                      ELSE 0
             percent == IF ratio > 100 THEN 100 ELSE ratio
             complete == jm.Status \in {"Pull complete", "Already exists",
                                        "Download complete"}
         IN  Ptr([ID |-> jm.ID,
                  ParentID |-> "",
                  Text |-> jm.Status,
                  Status |-> IF complete THEN "Done" ELSE "Working",
                  StatusText |-> ProgressString(progress),
                  Current |-> progress.Current,
                  Total |-> progress.Total,
                  Percent |-> IF complete THEN 100 ELSE percent])

\* !started
startCond_Always(isStarted) == TRUE

startCond(isStarted) == ~isStarted

\* the events of one message without error: the event of its layer if it
\* names one and carries a progress, else the event of its status if it
\* has one
messageEvents(eventID, message) ==
    IF message.ID # ""
    THEN LET e == toProgressEvent(message)
         IN  IF e # Nil THEN <<[e[1] EXCEPT !.ParentID = eventID]>> ELSE <<>>
    ELSE IF message.Status # ""
    THEN <<Event(eventID, eventID, message.Status, "Working", "")>>
    ELSE <<>>

\* one pass of the loop over the channel, for the message msg
loopBody(eventID, msg, isStarted, emitted) ==
    IF msg.Err # ""
    THEN [err |-> "pull image: " \o msg.Err, started |-> isStarted,
          events |-> emitted]
    ELSE [err |-> "",
          started |-> TRUE,
          events |->
              emitted
              \o (IF startCond(isStarted)
                  THEN <<Event(eventID, "", "", "Working", "Pulling...")>>
                  ELSE <<>>)
              \o messageEvents(eventID, msg.Message)]

(***************************************************************************)
(* What PullImage returns.                                                 *)
(***************************************************************************)
Image == "nginx"

JSONMessage(id, status, progress) ==
    [ID |-> id, Status |-> status, Progress |-> progress]

JSONProgress(current, total) == [Current |-> current, Total |-> total]

PullMessage(e, message) == [Err |-> e, Message |-> message]

\* a bare error and an error that comes with a layer's message; a layer
\* half way, one past its total, one with a negative count, one complete
\* and one without progress; a status line; a message with nothing in it
PullMessages ==
    {PullMessage("timeout", JSONMessage("", "", Nil)),
     PullMessage("denied",
                 JSONMessage("layer1", "Downloading", Ptr(JSONProgress(5, 10)))),
     PullMessage("", JSONMessage("layer1", "Downloading",
                                 Ptr(JSONProgress(5, 10)))),
     PullMessage("", JSONMessage("layer1", "Extracting",
                                 Ptr(JSONProgress(30, 10)))),
     PullMessage("", JSONMessage("layer2", "Downloading",
                                 Ptr(JSONProgress(0 - 1, 3)))),
     PullMessage("", JSONMessage("layer1", "Pull complete",
                                 Ptr(JSONProgress(0, 0)))),
     PullMessage("", JSONMessage("layer2", "Waiting", Nil)),
     PullMessage("", JSONMessage("", "Digest: sha256:abc", Nil)),
     PullMessage("", JSONMessage("", "", Nil))}

\* PullImage fails, or returns a channel that delivers some messages and is
\* then closed or left open
PullImageResults ==
    {[ch |-> <<>>, closed |-> FALSE, err |-> "no machines"]}
    \cup {[ch |-> ch, closed |-> closed, err |-> ""] :
            ch \in SeqsUpTo(PullMessages, MaxMessages), closed \in BOOLEAN}

(***************************************************************************)
(* SpecPull: one run of the image pull.                                    *)
(***************************************************************************)
InitPull ==
    /\ pc = "pull"
    /\ pullImage \in PullImageResults
    /\ received = 0
    /\ started = FALSE
    /\ events = <<>>
    /\ pullErr = ""
    /\ ScannerIdle
    /\ ResolverIdle

\* ch, err := clusterClient.PullImage(...), up to the loop
PullImage ==
    /\ pc = "pull"
    /\ IF pullImage.err # ""
       THEN /\ pullErr' = "pull image: " \o pullImage.err
            /\ pc' = "returned"
       ELSE /\ pullErr' = ""
            /\ pc' = "receive"
    /\ started' = FALSE
    /\ UNCHANGED <<project, warnings, secrets, serviceSecrets, workingDir,
                   files, secretSpecs, secretMounts, err, fileReads,
                   validateErr, pullImage, received, events>>

\* the channel delivers its next message: one pass of the loop
Receive ==
    /\ pc = "receive"
    /\ received < Len(pullImage.ch)
    /\ LET r == loopBody(eventIDOf(Image), pullImage.ch[received + 1],
                         started, events)
       IN  /\ started' = r.started
           /\ events' = r.events
           /\ pullErr' = r.err
           /\ pc' = IF r.err # "" THEN "returned" ELSE "receive"
    /\ received' = received + 1
    /\ UNCHANGED <<project, warnings, secrets, serviceSecrets, workingDir,
                   files, secretSpecs, secretMounts, err, fileReads,
                   validateErr, pullImage>>

\* the channel is closed: the loop ends, Done is emitted, pull returns nil
Closed ==
    /\ pc = "receive"
    /\ received = Len(pullImage.ch)
    /\ pullImage.closed
    /\ events' = Append(events,
                        Event(eventIDOf(Image), "", "", "Done", "Pulled"))
    /\ pullErr' = ""
    /\ pc' = "returned"
    /\ UNCHANGED <<project, warnings, secrets, serviceSecrets, workingDir,
                   files, secretSpecs, secretMounts, err, fileReads,
                   validateErr, pullImage, received, started>>

NextPull == PullImage \/ Receive \/ Closed

SpecPull == InitPull /\ [][NextPull]_vars

(***************************************************************************)
(* Properties of the image pull.                                           *)
(***************************************************************************)
\* the parent event that opens the pull, and the one that ends it
IsPulling(e) == e = Event(eventIDOf(Image), "", "", "Working", "Pulling...")
IsPulled(e) == e = Event(eventIDOf(Image), "", "", "Done", "Pulled")

\* the places of the channel's messages that carry an error
ErrorAt == {k \in DOMAIN pullImage.ch : pullImage.ch[k].Err # ""}

\* the loop has received a message that carries an error
ErrorReceived == \E k \in ErrorAt : k <= received

\* what holds of the events emitted so far, in every state
PullEventsInOrder ==
    /\ Cardinality({i \in DOMAIN events : IsPulling(events[i])}) <= 1
    /\ \A i \in DOMAIN events :
        (~IsPulling(events[i]) /\ ~IsPulled(events[i]))
            => \E j \in 1..(i - 1) : IsPulling(events[j])
    /\ Cardinality({i \in DOMAIN events : IsPulled(events[i])}) <= 1
    /\ \A i \in DOMAIN events : IsPulled(events[i]) => i = Len(events)
    /\ (\E i \in DOMAIN events : IsPulled(events[i]))
        <=> (/\ pc = "returned"
             /\ pullImage.err = ""
             /\ pullImage.closed
             /\ received = Len(pullImage.ch)
             /\ ErrorAt = {})
    /\ ErrorReceived =>
        /\ pc = "returned"
        /\ \A k \in ErrorAt : received <= k
        /\ pullErr = "pull image: " \o pullImage.ch[received].Err
        /\ \A i \in DOMAIN events : ~IsPulled(events[i])

\* a step that returns an error, and any step after an error was returned,
\* emits nothing
NothingEmittedOnError ==
    (pullErr # "" \/ pullErr' # "") => events' = events

\* C24: for any messages on the pull channel, the parent "Pulling..." event
\* is emitted at most once and before any layer or status event; the Done
\* "Pulled" event is emitted once, as the last event, exactly when the
\* channel is closed and none of its messages carried an error; at the
\* first message with an error pull returns that error, emits nothing more
\* and never emits Done.
C24_PullEvents == [](PullEventsInOrder) /\ [][NothingEmittedOnError]_vars

\* a layer's progress, a status line, then an error: three events, the
\* first of them "Pulling...", and the error returned
C24_Witness ==
    /\ pc = "returned"
    /\ received = 3
    /\ pullImage.ch[1].Message.ID = "layer1" /\ pullImage.ch[1].Err = ""
    /\ pullImage.ch[2].Message.Status = "Digest: sha256:abc"
    /\ pullImage.ch[3].Err = "denied"
    /\ Len(events) = 3
    /\ IsPulling(events[1])
    /\ events[2].ID = "layer1" /\ events[2].ParentID = eventIDOf(Image)
    /\ events[3].Text = "Digest: sha256:abc"
    /\ pullErr = "pull image: denied"

====
